---------------------------- MODULE Spec2Model ----------------------------
(***************************************************************************)
(* A model of the SQL Server gateway: the connection pool                  *)
(* (src/src/database/connection.py), the read-only query validator         *)
(* (src/src/database/operations.py), and the rate limiter and dispatcher   *)
(* (src/mcp-sqlserver/src/mcp_server.py) with the tool handlers they call  *)
(* (src/mcp-sqlserver/src/tools/read_tools.py, write_tools.py).            *)
(*                                                                         *)
(* Query text is a sequence of lexemes.  A lexeme is a string that the     *)
(* regular expressions of the validator treat as a unit: a word, a blank,  *)
(* a newline, or one of the comment marks "--", "/*" and "*/".  No lexeme  *)
(* of the alphabets used here ends in a prefix of a mark or of a keyword,  *)
(* so matching on lexemes is matching on characters.                       *)
(***************************************************************************)
EXTENDS Integers, Sequences, FiniteSets, TLC

VARIABLES
    query,      \* validator: the query text given to validate_read_only_query
    verdict,    \* validator: the (is_valid, error_message) pair it returned
    vpc,        \* validator: "input" before the call, "done" after it
    now,        \* the clock read by datetime.now(), in whole seconds
    requests,   \* RateLimiter.requests: client id -> its recorded timestamps
    admitted,   \* history: per client, the time of every admitted call
    last,       \* history: the latest is_allowed call and its result
    mode,       \* MCPSQLServerConfig.mode
    db_ops_db,  \* ReadOnlyTools.db_ops.db: None until _get_db first runs
    call,       \* history: the latest handle_tool_call, what the backend did to its
                \* statements, what it did and returned
    pool,       \* ConnectionPool._pool: the queue of idle handles, oldest first
    created_connections,    \* ConnectionPool._created_connections
    handles,    \* how many handles pyodbc.connect has returned; they are 1..handles
    closed,     \* the handles on which close() has been called
    broken,     \* the handles whose session the backend has dropped
    tpc,        \* per caller: where it is in DatabaseConnection.get_connection
    connection, \* per caller: the handle its worker or its body holds, 0 for None
    faulted,    \* history: the handles on which a query execution has raised
    cancelled,  \* per caller: its coroutine was cancelled while its worker ran on
    orphaned,   \* the handles no caller holds that are neither idle nor closed
    lifecycle,  \* DatabaseConnection._pool set or None, and the handles at close()
    uncommitted,    \* the handles with a transaction open: a statement ran on them and
                    \* neither commit nor rollback followed
    build       \* tools: the arguments of one call and what the tool made of them

classVars == <<query, verdict, vpc>>
rateVars == <<now, requests, admitted, last>>
dispVars == <<mode, db_ops_db, call, build>>
lifeVars == <<faulted, cancelled, orphaned, lifecycle, uncommitted>>
poolVars == <<pool, created_connections, handles, closed, broken, tpc, connection, lifeVars>>

vars == <<query, verdict, vpc, now, requests, admitted, last, mode, db_ops_db, call,
          pool, created_connections, handles, closed, broken, tpc, connection,
          faulted, cancelled, orphaned, lifecycle, uncommitted, build>>

-----------------------------------------------------------------------------
(* Bounds *)

MaxBaseLen == 3
MaxTime == 3            \* the clock stops here
pool_size == 1          \* ConnectionConfig.pool_size
max_overflow == 1       \* ConnectionConfig.max_overflow
MaxHandles == 4         \* pyodbc.connect fails once it has returned this many

-----------------------------------------------------------------------------
(* The parts of the state a specification does not exercise stay as built *)

Clients == {"c1", "c2"}

NoVerdict == [valid |-> FALSE, reason |-> "none"]

ClassifyIdle ==
    /\ query = <<>>
    /\ verdict = NoVerdict
    /\ vpc = "idle"

NoLast == [client |-> "none", at |-> 0, allowed |-> FALSE, seen |-> FALSE, before |-> <<>>]

\* RateLimiter.__init__
RateIdle ==
    /\ now = 0
    /\ requests = <<>>
    /\ admitted = [c \in Clients |-> <<>>]
    /\ last = NoLast

NoCall == [tool |-> "none"]

\* No tool has been given arguments.
NoBuild == [stage |-> "idle"]

DispatchIdle ==
    /\ mode = "READ_ONLY"
    /\ db_ops_db = "None"
    /\ call = NoCall
    /\ build = NoBuild

Callers == {"t1", "t2", "t3"}

\* DatabaseConnection._pool is set and close() has not run.
Open == [state |-> "open", handles_at_close |-> 0]

\* Nothing has raised, been cancelled or been lost.
LifeIdle ==
    /\ faulted = {}
    /\ cancelled = [t \in Callers |-> FALSE]
    /\ orphaned = {}
    /\ lifecycle = Open
    /\ uncommitted = {}

\* No ConnectionPool has been built.
PoolIdle ==
    /\ pool = <<>>
    /\ created_connections = 0
    /\ handles = 0
    /\ closed = {}
    /\ broken = {}
    /\ tpc = [t \in Callers |-> "idle"]
    /\ connection = [t \in Callers |-> 0]
    /\ LifeIdle

-----------------------------------------------------------------------------
(* ConnectionPool and DatabaseConnection.get_connection (connection.py) *)

\* ConnectionPool._max_connections, which is also the maxsize of the queue.
max_connections == pool_size + max_overflow

\* Mutant: no ceiling on the connections created.
BelowLimit_NoCeiling(count) == TRUE

\* The test _create_new_connection makes under the lock.
BelowLimit(count) == count < max_connections

\* Mutant: the oldest item is read and stays in the queue.
QueueGet_Peek(q) == [item |-> Head(q), rest |-> q]

\* Queue.get: the oldest item leaves the queue.
QueueGet(q) == [item |-> Head(q), rest |-> Tail(q)]

\* The handles that are neither closed nor dropped by the backend.
Healthy == (1..handles) \ (closed \cup broken)

\* ConnectionPool.__init__: _initialize_pool has connected k times out of
\* pool_size, each failure logged and skipped.
InitPool ==
    /\ \E k \in 0..pool_size :
          /\ pool = [i \in 1..k |-> i]
          /\ created_connections = k
          /\ handles = k
    /\ closed = {}
    /\ broken = {}
    /\ tpc = [t \in Callers |-> "idle"]
    /\ connection = [t \in Callers |-> 0]
    /\ LifeIdle
    /\ RateIdle
    /\ ClassifyIdle
    /\ DispatchIdle

\* DatabaseConnection.get_connection hands ConnectionPool.get_connection to a
\* worker thread, which starts waiting on the queue.
Enter(t) ==
    /\ tpc[t] = "idle"
    /\ tpc' = [tpc EXCEPT ![t] = IF lifecycle.state # "closed"
                                  THEN "get" ELSE "not_initialized"]
    /\ UNCHANGED <<pool, created_connections, handles, closed, broken, connection>>
    /\ UNCHANGED <<classVars, rateVars, dispVars, lifeVars>>

\* self._pool.get(timeout=timeout) returns an idle handle.
PoolGet(t) ==
    /\ tpc[t] = "get"
    /\ pool # <<>>
    /\ pool' = QueueGet(pool).rest
    /\ connection' = [connection EXCEPT ![t] = QueueGet(pool).item]
    /\ tpc' = [tpc EXCEPT ![t] = "probe"]
    /\ UNCHANGED <<created_connections, handles, closed, broken>>
    /\ UNCHANGED <<classVars, rateVars, dispVars, lifeVars>>

\* Mutant: the wait on the queue gives up whatever the queue holds.
PoolEmpty_Anytime(t) ==
    /\ tpc[t] = "get"
    /\ tpc' = [tpc EXCEPT ![t] = "create"]
    /\ UNCHANGED <<pool, created_connections, handles, closed, broken, connection>>
    /\ UNCHANGED <<classVars, rateVars, dispVars, lifeVars>>

\* self._pool.get(timeout=timeout) raises Empty: the wait ended with the
\* queue empty.
PoolEmpty(t) ==
    /\ tpc[t] = "get"
    /\ pool = <<>>
    /\ tpc' = [tpc EXCEPT ![t] = "create"]
    /\ UNCHANGED <<pool, created_connections, handles, closed, broken, connection>>
    /\ UNCHANGED <<classVars, rateVars, dispVars, lifeVars>>

\* The SELECT 1 probe of get_connection: the handle is returned to the
\* caller, or it is closed and a new one is asked for.
Probe(t) ==
    /\ tpc[t] = "probe"
    /\ IF connection[t] \in broken
       THEN /\ closed' = closed \cup {connection[t]}
            /\ connection' = [connection EXCEPT ![t] = 0]
            /\ tpc' = [tpc EXCEPT ![t] = "create"]
       ELSE /\ tpc' = [tpc EXCEPT ![t] = "body"]
            /\ UNCHANGED <<closed, connection>>
    /\ UNCHANGED <<pool, created_connections, handles, broken>>
    /\ UNCHANGED <<classVars, rateVars, dispVars, lifeVars>>

\* ConnectionPool._create_new_connection, one step under self._lock.  It
\* raises "Limite máximo de conexões atingido" at the limit, and whatever
\* pyodbc.connect raises when the backend refuses.
CreateNew(t) ==
    /\ tpc[t] = "create"
    /\ \E connects \in BOOLEAN :
          IF BelowLimit(created_connections) /\ connects /\ handles < MaxHandles
          THEN /\ handles' = handles + 1
               /\ created_connections' = created_connections + 1
               /\ connection' = [connection EXCEPT ![t] = handles + 1]
               /\ tpc' = [tpc EXCEPT ![t] = "body"]
          ELSE /\ tpc' = [tpc EXCEPT ![t] = IF BelowLimit(created_connections)
                                            THEN "connect_error" ELSE "exhausted"]
               /\ UNCHANGED <<handles, created_connections, connection>>
    /\ UNCHANGED <<pool, closed, broken>>
    /\ UNCHANGED <<classVars, rateVars, dispVars, lifeVars>>

\* The exception of the worker reaches DatabaseConnection.get_connection,
\* which logs it and re-raises; its finally block finds connection None.
Raise(t) ==
    /\ tpc[t] \in {"exhausted", "connect_error", "not_initialized"}
    /\ tpc' = [tpc EXCEPT ![t] = "idle"]
    /\ cancelled' = [cancelled EXCEPT ![t] = FALSE]
    /\ UNCHANGED <<pool, created_connections, handles, closed, broken, connection>>
    /\ UNCHANGED <<classVars, rateVars, dispVars, faulted, orphaned, lifecycle, uncommitted>>

\* The body of `async with self.get_connection() as conn` in
\* DatabaseConnection.execute_query: the statement runs or raises; on a handle
\* whose session is gone it raises.  The connection was opened without
\* autocommit and neither commit nor rollback is called on it.
Execute(t) ==
    /\ tpc[t] = "body"
    /\ ~cancelled[t]
    /\ \E raises \in BOOLEAN :
          /\ connection[t] \in broken => raises
          /\ faulted' = IF raises THEN faulted \cup {connection[t]} ELSE faulted
          /\ uncommitted' = IF raises THEN uncommitted ELSE uncommitted \cup {connection[t]}
    /\ tpc' = [tpc EXCEPT ![t] = "release"]
    /\ UNCHANGED <<pool, created_connections, handles, closed, broken, connection>>
    /\ UNCHANGED <<classVars, rateVars, dispVars, cancelled, orphaned, lifecycle>>

\* Mutant: the release is skipped when the body raised.
ReturnConnection_OnlyOnSuccess(t) ==
    /\ tpc[t] = "release"
    /\ pool' = IF connection[t] \in faulted THEN pool ELSE Append(pool, connection[t])
    /\ connection' = [connection EXCEPT ![t] = 0]
    /\ tpc' = [tpc EXCEPT ![t] = "idle"]
    /\ UNCHANGED <<created_connections, handles, closed, broken>>
    /\ UNCHANGED <<classVars, rateVars, dispVars, lifeVars>>

\* The finally block of DatabaseConnection.get_connection, reached when the
\* body ends or raises: ConnectionPool.return_connection.
ReturnConnection(t) ==
    /\ tpc[t] = "release"
    /\ IF lifecycle.state = "closed"
       THEN /\ orphaned' = orphaned \cup {<<connection[t], "pool_closed">>}
            /\ UNCHANGED <<pool, closed, created_connections>>
       ELSE /\ IF connection[t] \notin closed
               THEN IF Len(pool) < max_connections
                    THEN /\ pool' = Append(pool, connection[t])
                         /\ UNCHANGED <<closed, created_connections>>
                    ELSE /\ closed' = closed \cup {connection[t]}
                         /\ created_connections' = created_connections - 1
                         /\ UNCHANGED pool
               ELSE /\ created_connections' = created_connections - 1
                    /\ UNCHANGED <<pool, closed>>
            /\ UNCHANGED orphaned
    /\ uncommitted' = IF /\ lifecycle.state # "closed"
                         /\ connection[t] \notin closed
                         /\ Len(pool) >= max_connections
                      THEN uncommitted \ {connection[t]}
                      ELSE uncommitted
    /\ connection' = [connection EXCEPT ![t] = 0]
    /\ tpc' = [tpc EXCEPT ![t] = "idle"]
    /\ UNCHANGED <<handles, broken>>
    /\ UNCHANGED <<classVars, rateVars, dispVars, faulted, cancelled, lifecycle>>

\* The backend drops the session of a handle, wherever the handle is, and
\* with it the transaction open on it.
Drop(h) ==
    /\ h \in Healthy
    /\ broken' = broken \cup {h}
    /\ uncommitted' = uncommitted \ {h}
    /\ UNCHANGED <<pool, created_connections, handles, closed, tpc, connection>>
    /\ UNCHANGED <<classVars, rateVars, dispVars, faulted, cancelled, orphaned, lifecycle>>

NextPool ==
    \/ \E t \in Callers :
          \/ Enter(t)
          \/ PoolGet(t)
          \/ PoolEmpty(t)
          \/ Probe(t)
          \/ CreateNew(t)
          \/ Raise(t)
          \/ Execute(t)
          \/ ReturnConnection(t)
    \/ \E h \in 1..MaxHandles : Drop(h)

SpecPool == InitPool /\ [][NextPool]_vars

\* The coroutine is cancelled while it awaits run_in_executor(get_connection):
\* CancelledError is raised in it with connection still None, so its finally
\* block releases nothing.  A job no thread has picked up yet is cancelled
\* with it; a job that is running goes on.
CancelCheckout(t) ==
    /\ tpc[t] \in {"get", "probe", "create"}
    /\ ~cancelled[t]
    /\ \E running \in BOOLEAN :
          /\ tpc[t] # "get" => running
          /\ IF running
             THEN cancelled' = [cancelled EXCEPT ![t] = TRUE] /\ UNCHANGED tpc
             ELSE tpc' = [tpc EXCEPT ![t] = "idle"] /\ UNCHANGED cancelled
    /\ UNCHANGED <<pool, created_connections, handles, closed, broken, connection>>
    /\ UNCHANGED <<classVars, rateVars, dispVars, faulted, orphaned, lifecycle, uncommitted>>

\* The worker of a cancelled coroutine returns its connection to a future
\* nobody awaits.
Abandon(t) ==
    /\ tpc[t] = "body"
    /\ cancelled[t]
    /\ orphaned' = orphaned \cup {<<connection[t], "cancelled_checkout">>}
    /\ connection' = [connection EXCEPT ![t] = 0]
    /\ cancelled' = [cancelled EXCEPT ![t] = FALSE]
    /\ tpc' = [tpc EXCEPT ![t] = "idle"]
    /\ UNCHANGED <<pool, created_connections, handles, closed, broken>>
    /\ UNCHANGED <<classVars, rateVars, dispVars, faulted, lifecycle, uncommitted>>

\* The coroutine is cancelled while it awaits run_in_executor(return_connection)
\* and no thread has picked the job up yet: the job is cancelled with it.
\* (When the job is running, ReturnConnection is what happens.)
CancelRelease(t) ==
    /\ tpc[t] = "release"
    /\ lifecycle.state # "closed"
    /\ orphaned' = orphaned \cup {<<connection[t], "cancelled_release">>}
    /\ connection' = [connection EXCEPT ![t] = 0]
    /\ tpc' = [tpc EXCEPT ![t] = "idle"]
    /\ UNCHANGED <<pool, created_connections, handles, closed, broken>>
    /\ UNCHANGED <<classVars, rateVars, dispVars, faulted, cancelled, lifecycle, uncommitted>>

\* DatabaseConnection.close: ConnectionPool.close_all, then self._pool = None.
Close ==
    /\ lifecycle.state = "open"
    /\ closed' = closed \cup {pool[i] : i \in DOMAIN pool}
    /\ pool' = <<>>
    /\ created_connections' = 0
    /\ lifecycle' = [state |-> "closed", handles_at_close |-> handles]
    /\ uncommitted' = uncommitted \ {pool[i] : i \in DOMAIN pool}
    /\ UNCHANGED <<handles, broken, tpc, connection>>
    /\ UNCHANGED <<classVars, rateVars, dispVars, faulted, cancelled, orphaned>>

\* The module's get_connection() after close_connections() has set
\* _connection_manager to None: a new DatabaseConnection and a new
\* ConnectionPool are built, with k connections out of pool_size.
Reopen ==
    /\ lifecycle.state = "closed"
    /\ \A t \in Callers : tpc[t] = "idle"
    /\ \E k \in 0..pool_size :
          /\ handles + k <= MaxHandles
          /\ pool' = [i \in 1..k |-> handles + i]
          /\ created_connections' = k
          /\ handles' = handles + k
    /\ lifecycle' = [lifecycle EXCEPT !.state = "reopened"]
    /\ UNCHANGED <<closed, broken, tpc, connection>>
    /\ UNCHANGED <<classVars, rateVars, dispVars, faulted, cancelled, orphaned, uncommitted>>

\* The callers that are active while the pool is cancelled on and shut down.
LifeCallers == {"t1", "t2"}

\* The steps of the pool with a backend that keeps its sessions, together
\* with cancellation and shutdown.
NextLifecycle ==
    \/ \E t \in LifeCallers :
          \/ Enter(t)
          \/ PoolGet(t)
          \/ PoolEmpty(t)
          \/ Probe(t)
          \/ CreateNew(t)
          \/ Raise(t)
          \/ Execute(t)
          \/ ReturnConnection(t)
          \/ CancelCheckout(t)
          \/ Abandon(t)
          \/ CancelRelease(t)
    \/ Close
    \/ Reopen

SpecLifecycle == InitPool /\ [][NextLifecycle]_vars

-----------------------------------------------------------------------------
(* QueryValidator (operations.py) *)

FORBIDDEN_KEYWORDS ==
    { "INSERT", "UPDATE", "DELETE", "DROP", "CREATE", "ALTER", "TRUNCATE",
      "EXEC", "EXECUTE", "SP_", "XP_", "BACKUP", "RESTORE", "BULK",
      "OPENROWSET", "OPENDATASOURCE", "OPENQUERY", "OPENXML" }

\* str.isspace of a lexeme: what str.strip and str.split treat as blank.
IsSpace(tok) == tok \in {" ", "\n"}

\* str.upper of one lexeme.
UpperTok(tok) ==
    CASE tok = "SeLeCt" -> "SELECT"
      [] tok = "select" -> "SELECT"
      [] tok = "drop"   -> "DROP"
      [] tok = "DrOp"   -> "DROP"
      [] tok = "from"   -> "FROM"
      [] tok = "into"   -> "INTO"
      [] tok = "updated_at" -> "UPDATED_AT"
      [] OTHER -> tok

\* The forbidden keywords that occur as substrings of an upper-case lexeme
\* (the test of line 92 is a substring test, not a word test).
KeywordsIn(tok) ==
    CASE tok \in FORBIDDEN_KEYWORDS -> IF tok = "EXECUTE" THEN {"EXEC", "EXECUTE"} ELSE {tok}
      [] tok = "UPDATED_AT" -> {"UPDATE"}
      [] tok = "SP_HELP"    -> {"SP_"}
      [] OTHER -> {}

RECURSIVE IndexOf(_, _, _)
\* The least i >= from with s[i] = tok, or 0.
IndexOf(s, tok, from) ==
    IF from > Len(s) THEN 0
    ELSE IF s[from] = tok THEN from
    ELSE IndexOf(s, tok, from + 1)

RECURSIVE StripLineComments(_)
\* re.sub(r'--.*?\n', ' ', query): each "--" that has a newline after it is
\* replaced, with everything up to and including the first such newline, by
\* one blank; a "--" with no newline after it is left in place.
StripLineComments(s) ==
    IF s = <<>> THEN <<>>
    ELSE IF Head(s) = "--" /\ IndexOf(s, "\n", 2) # 0
         THEN <<" ">> \o StripLineComments(SubSeq(s, IndexOf(s, "\n", 2) + 1, Len(s)))
         ELSE <<Head(s)>> \o StripLineComments(Tail(s))

RECURSIVE StripBlockComments(_)
\* re.sub(r'/\*.*?\*/', ' ', query_clean, flags=re.DOTALL): each "/*" that has
\* a "*/" after it is replaced, with everything up to the first such "*/", by
\* one blank.
StripBlockComments(s) ==
    IF s = <<>> THEN <<>>
    ELSE IF Head(s) = "/*" /\ IndexOf(s, "*/", 2) # 0
         THEN <<" ">> \o StripBlockComments(SubSeq(s, IndexOf(s, "*/", 2) + 1, Len(s)))
         ELSE <<Head(s)>> \o StripBlockComments(Tail(s))

RECURSIVE DropLeadingSpace(_)
DropLeadingSpace(s) ==
    IF s # <<>> /\ IsSpace(Head(s)) THEN DropLeadingSpace(Tail(s)) ELSE s

RECURSIVE CollapseUpper(_)
\* ' '.join(query_clean.split()).upper(): blanks at both ends dropped, every
\* other run of blanks made one blank, every lexeme upper-cased.
CollapseUpper(s) ==
    LET t == DropLeadingSpace(s) IN
    IF t = <<>> THEN <<>>
    ELSE IF DropLeadingSpace(Tail(t)) = <<>> THEN <<UpperTok(Head(t))>>
    ELSE IF IsSpace(t[2])
         THEN <<UpperTok(Head(t)), " ">> \o CollapseUpper(DropLeadingSpace(Tail(t)))
         ELSE <<UpperTok(Head(t))>> \o CollapseUpper(Tail(t))

\* query_clean as lines 80-84 compute it.
QueryClean(q) == CollapseUpper(StripBlockComments(StripLineComments(q)))

\* query_clean.strip().startswith('SELECT')
StartsWithSelect(c) == c # <<>> /\ c[1] = "SELECT"

\* for keyword in FORBIDDEN_KEYWORDS: if keyword in query_clean
HasForbiddenKeyword(c) ==
    \E i \in 1..Len(c) : KeywordsIn(c[i]) \cap FORBIDDEN_KEYWORDS # {}

\* r';\s*SELECT'
MatchesStacking(c) ==
    \E i \in 1..Len(c) :
        /\ c[i] = ";"
        /\ \/ i + 1 <= Len(c) /\ c[i + 1] = "SELECT"
           \/ i + 2 <= Len(c) /\ c[i + 1] = " " /\ c[i + 2] = "SELECT"

\* r'UNION\s+ALL\s+SELECT.*FROM\s+INFORMATION_SCHEMA'
MatchesInfoSchema(c) ==
    \E i \in 1..Len(c) :
        /\ i + 4 <= Len(c)
        /\ c[i] = "UNION" /\ c[i + 1] = " " /\ c[i + 2] = "ALL"
        /\ c[i + 3] = " " /\ c[i + 4] = "SELECT"
        /\ \E j \in (i + 5)..Len(c) :
              /\ j + 2 <= Len(c)
              /\ c[j] = "FROM" /\ c[j + 1] = " " /\ c[j + 2] = "INFORMATION_SCHEMA"

\* r'@@'
MatchesSysVar(c) == \E i \in 1..Len(c) : c[i] = "@@"

\* r'WAITFOR'
MatchesWaitfor(c) == \E i \in 1..Len(c) : c[i] = "WAITFOR"

\* The loop over dangerous_patterns, lines 96-105.
MatchesDangerousPattern(c) ==
    MatchesStacking(c) \/ MatchesInfoSchema(c) \/ MatchesSysVar(c) \/ MatchesWaitfor(c)

\* `not query or not query.strip()`
IsBlankQuery(q) == \A i \in 1..Len(q) : IsSpace(q[i])

\* QueryValidator.validate_read_only_query: the first failing check decides.
validate_read_only_query(q) ==
    IF IsBlankQuery(q) THEN [valid |-> FALSE, reason |-> "empty"]
    ELSE IF ~StartsWithSelect(QueryClean(q)) THEN [valid |-> FALSE, reason |-> "not_select"]
    ELSE IF HasForbiddenKeyword(QueryClean(q)) THEN [valid |-> FALSE, reason |-> "forbidden"]
    ELSE IF MatchesDangerousPattern(QueryClean(q)) THEN [valid |-> FALSE, reason |-> "dangerous"]
    ELSE [valid |-> TRUE, reason |-> ""]


-----------------------------------------------------------------------------
(* RateLimiter (mcp_server.py) *)

max_requests == 2       \* RateLimiter.max_requests, scaled down from 60
window_seconds == 2     \* RateLimiter.window_seconds, scaled down from 60

\* Mutant: one history for every caller, that of the first caller recorded.
PurgedHistory_OneForAll(reqs, c, t) ==
    IF DOMAIN reqs # {}
    THEN SelectSeq(reqs[CHOOSE k \in DOMAIN reqs : TRUE], LAMBDA r : t - r < window_seconds)
    ELSE <<>>

\* self.requests[client_id] after the list comprehension of lines 70-74 and
\* the default of lines 77-78: the timestamps t with now - t < window_seconds,
\* in their order; the empty list for a client not seen before.
PurgedHistory(reqs, c, t) ==
    IF c \in DOMAIN reqs
    THEN SelectSeq(reqs[c], LAMBDA r : t - r < window_seconds)
    ELSE <<>>

\* Mutant: the limit test off by one.
AllowedNow_OffByOne(reqs, c, t) == Len(PurgedHistory(reqs, c, t)) <= max_requests

\* The value is_allowed returns (line 80).
AllowedNow(reqs, c, t) == Len(PurgedHistory(reqs, c, t)) < max_requests

\* Mutant: the timestamp is recorded before the limit is tested.
RequestsAfter_AlwaysRecords(reqs, c, t) ==
    [k \in DOMAIN reqs \cup {c} |->
        IF k = c THEN Append(PurgedHistory(reqs, c, t), t) ELSE reqs[k]]

\* self.requests when is_allowed returns.
RequestsAfter(reqs, c, t) ==
    [k \in DOMAIN reqs \cup {c} |->
        IF k = c
        THEN IF AllowedNow(reqs, c, t)
             THEN Append(PurgedHistory(reqs, c, t), t)
             ELSE PurgedHistory(reqs, c, t)
        ELSE reqs[k]]

\* The record of one is_allowed call.
LastCall(reqs, c, t) ==
    [client  |-> c,
     at      |-> t,
     allowed |-> AllowedNow(reqs, c, t),
     seen    |-> c \in DOMAIN reqs,
     before  |-> IF c \in DOMAIN reqs THEN reqs[c] ELSE <<>>]

\* RateLimiter.is_allowed(client_id), with the histories of its results.
is_allowed(c) ==
    /\ requests' = RequestsAfter(requests, c, now)
    /\ last' = LastCall(requests, c, now)
    /\ admitted' = [admitted EXCEPT ![c] =
                       IF AllowedNow(requests, c, now) THEN Append(@, now) ELSE @]

\* Time passes between calls.
Tick ==
    /\ now < MaxTime
    /\ now' = now + 1
    /\ UNCHANGED <<requests, admitted, last, classVars, dispVars, poolVars>>

IsAllowedCall ==
    \E c \in Clients :
        /\ is_allowed(c)
        /\ UNCHANGED <<now, classVars, dispVars, poolVars>>

InitRate ==
    /\ RateIdle
    /\ ClassifyIdle
    /\ PoolIdle
    /\ DispatchIdle

NextRate == Tick \/ IsAllowedCall

SpecRate == InitRate /\ [][NextRate]_vars


-----------------------------------------------------------------------------
(* Tool handlers (read_tools.py, write_tools.py) *)

READ_TOOLS ==
    { "list_tables", "describe_table", "list_columns", "list_indexes",
      "list_views", "list_procedures", "list_functions", "execute_select",
      "get_table_data", "get_database_schema", "check_constraints" }

WRITE_TOOLS ==
    { "execute_query", "create_table", "alter_table", "drop_table",
      "insert_data", "update_data", "delete_data", "create_index",
      "drop_index", "execute_procedure", "backup_table" }

\* The parameters of each handler method that have no default.
RequiredParams(tool) ==
    CASE tool \in {"describe_table", "list_columns", "list_indexes",
                   "get_table_data", "check_constraints", "drop_table",
                   "backup_table"} -> {"table_name"}
      [] tool \in {"execute_select", "execute_query"} -> {"query"}
      [] tool = "create_table" -> {"table_name", "columns"}
      [] tool = "alter_table" -> {"table_name", "operation"}
      [] tool = "insert_data" -> {"table_name", "data"}
      [] tool = "update_data" -> {"table_name", "set_values", "where_clause"}
      [] tool = "delete_data" -> {"table_name", "where_clause"}
      [] tool = "create_index" -> {"index_name", "table_name", "columns"}
      [] tool = "drop_index" -> {"index_name", "table_name"}
      [] tool = "execute_procedure" -> {"procedure_name"}
      [] OTHER -> {}

\* The parameters of each handler method that have a default.
OptionalParams(tool) ==
    CASE tool \in {"list_tables", "describe_table", "list_columns", "list_indexes",
                   "check_constraints", "drop_table"} -> {"schema"}
      [] tool = "execute_select" -> {"limit"}
      [] tool = "get_table_data" -> {"schema", "limit", "offset"}
      [] tool = "execute_query" -> {"params"}
      [] tool \in {"create_table", "insert_data"} -> {"schema"}
      [] tool = "alter_table" -> {"column_definition", "schema"}
      [] tool \in {"update_data", "delete_data"} -> {"where_params", "schema"}
      [] tool = "create_index" -> {"unique", "schema"}
      [] tool = "drop_index" -> {"schema"}
      [] tool = "execute_procedure" -> {"params", "schema"}
      [] tool = "backup_table" -> {"backup_name", "schema"}
      [] OTHER -> {}

\* method(**arguments) binds: no parameter without default is missing and no
\* keyword is unknown to the method; otherwise Python raises TypeError.
ArgumentsBind(tool, args) ==
    /\ RequiredParams(tool) \subseteq DOMAIN args
    /\ DOMAIN args \subseteq RequiredParams(tool) \cup OptionalParams(tool)

\* Python's truth value of an argument: None, "" and [] are false.
Truthy(v) == v \notin {"", "<None>", "[]"}

\* One statement handed to DatabaseConnection.execute_query.
Statement(op, where, text) == [op |-> op, where |-> where, text |-> text]

\* What the backend does to the calls of one invocation: every call works,
\* every call raises, every call but the first raises, or no connection can
\* be checked out.
DbOutcomes == {"ok", "db_error", "db_error_after_first", "pool_error"}

CallOutcome(out, i) ==
    CASE out = "ok" -> "ok"
      [] out = "db_error" -> "db_error"
      [] out = "db_error_after_first" -> IF i = 1 THEN "ok" ELSE "db_error"
      [] OTHER -> "pool_error"

\* A handler's result: the dictionary it returns, the statements that reached
\* the backend and the number of connections checked out on the way.
Outcome(success, error, sent, checkouts) ==
    [success |-> success, error |-> error, error_code |-> "absent",
     sent |-> sent, checkouts |-> checkouts]

Failure(error) == Outcome(FALSE, error, <<>>, 0)

\* A handler that awaits its statements one after another and gives up at the
\* first that raises (the exception reaches its `except Exception`).
RunInOrder(stmts, out) ==
    LET n == Len(stmts)
        reached(i) == \A j \in 1..(i - 1) : CallOutcome(out, j) = "ok"
        tried == {i \in 1..n : reached(i)}
        sentIdx == {i \in tried : CallOutcome(out, i) # "pool_error"}
        allOk == \A i \in 1..n : CallOutcome(out, i) = "ok"
    IN Outcome(allOk, IF allOk THEN "" ELSE "exception",
               SelectSeq([i \in 1..n |-> IF i \in sentIdx THEN stmts[i] ELSE Statement("skip", "", <<>>)],
                         LAMBDA st : st.op # "skip"),
               Cardinality(sentIdx))

\* _validate_table_name / _sanitize_sql_identifier raise ValueError on a name
\* that is empty (or empty once sanitized).
ValidIdentifier(name) == Truthy(name)

SchemaTables == 1       \* tables the backend reports to get_database_schema

MetadataQuery(tool) ==
    IF tool = "get_database_schema"
    THEN [i \in 1..(4 + 2 * SchemaTables) |-> Statement("SELECT_METADATA", "", <<>>)]
    ELSE <<Statement("SELECT_METADATA", "", <<>>)>>

\* ReadOnlyTools.execute_select
execute_select(args, out) ==
    IF ~validate_read_only_query(args.query).valid
    THEN Failure(validate_read_only_query(args.query).reason)
    ELSE RunInOrder(<<Statement("SELECT", "", args.query)>>, out)

\* FullAccessTools.update_data
update_data(args, out) ==
    IF ~ValidIdentifier(args.table_name) THEN Failure("bad_identifier")
    ELSE RunInOrder(<<Statement("UPDATE",
                                IF Truthy(args.where_clause) THEN args.where_clause ELSE "",
                                <<>>)>>, out)

\* Mutant: delete_data without its guard, built like update_data.
delete_data_Unguarded(args, out) ==
    IF ~ValidIdentifier(args.table_name) THEN Failure("bad_identifier")
    ELSE RunInOrder(<<Statement("DELETE",
                                IF Truthy(args.where_clause) THEN args.where_clause ELSE "",
                                <<>>)>>, out)

\* FullAccessTools.delete_data
delete_data(args, out) ==
    IF ~ValidIdentifier(args.table_name) THEN Failure("bad_identifier")
    ELSE IF ~Truthy(args.where_clause) THEN Failure("no_where")
    ELSE RunInOrder(<<Statement("DELETE", args.where_clause, <<>>)>>, out)

RowCount(data) == CASE data = "[r1]" -> 1 [] data = "[r1,r2]" -> 2 [] OTHER -> 0

\* FullAccessTools.insert_data: one execute_query per row, each in its own
\* try; success is rows_inserted > 0.
insert_data(args, out) ==
    IF ~Truthy(args.data) THEN Failure("no_data")
    ELSE IF ~ValidIdentifier(args.table_name) THEN Failure("bad_identifier")
    ELSE LET n == RowCount(args.data)
             sentIdx == {i \in 1..n : CallOutcome(out, i) # "pool_error"}
             inserted == Cardinality({i \in 1..n : CallOutcome(out, i) = "ok"})
         IN Outcome(inserted > 0, IF inserted = n THEN "" ELSE "row_errors",
                    [i \in 1..Cardinality(sentIdx) |-> Statement("INSERT", "", <<>>)],
                    Cardinality(sentIdx))

\* The remaining handlers of FullAccessTools: sanitize the names, build one
\* statement, run it through self.execute_query.
OneStatementWrite(tool, args, out) ==
    IF tool = "execute_query"
    THEN RunInOrder(<<Statement("RAW", "", args.query)>>, out)
    ELSE IF \E k \in DOMAIN args \cap {"table_name", "index_name", "procedure_name"} :
                ~ValidIdentifier(args[k])
    THEN Failure("bad_identifier")
    ELSE RunInOrder(<<Statement(tool, "", <<>>)>>, out)

\* The method getattr(self.tools, tool_name) finds, called with **arguments.
Handler(tool, args, out) ==
    CASE tool = "execute_select" -> execute_select(args, out)
      [] tool = "update_data" -> update_data(args, out)
      [] tool = "delete_data" -> delete_data(args, out)
      [] tool = "insert_data" -> insert_data(args, out)
      [] tool \in READ_TOOLS \ {"execute_select"} -> RunInOrder(MetadataQuery(tool), out)
      [] OTHER -> OneStatementWrite(tool, args, out)

-----------------------------------------------------------------------------
(* MCPSQLServer (mcp_server.py) *)

\* Mutant: the write tools registered whatever the mode.
available_tools_AnyMode(m) == READ_TOOLS \cup WRITE_TOOLS

\* self.available_tools as _register_tools builds it.
available_tools(m) ==
    IF m = "FULL_ACCESS" THEN READ_TOOLS \cup WRITE_TOOLS ELSE READ_TOOLS

\* What a ReadOnlyTools object has besides its tools.
READ_ATTRIBUTES == {"__init__", "db_ops", "max_result_rows"}

\* What FullAccessTools adds besides its tools.
WRITE_ATTRIBUTES == {"_sanitize_sql_identifier", "_validate_table_name", "max_affected_rows"}

\* hasattr(self.tools, tool_name): self.tools is a ReadOnlyTools in READ_ONLY
\* mode and a FullAccessTools, which inherits from it, otherwise.
HasMethod(m, tool) ==
    IF m = "FULL_ACCESS"
    THEN tool \in READ_TOOLS \cup WRITE_TOOLS \cup READ_ATTRIBUTES \cup WRITE_ATTRIBUTES
    ELSE tool \in READ_TOOLS \cup READ_ATTRIBUTES

\* The dictionary handle_tool_call returns and what running it did; `meta`
\* says that execution_time, tool_name and timestamp were added.
Envelope(o, code, meta, ran) ==
    [success |-> o.success, error |-> o.error, error_code |-> code, meta |-> meta,
     sent |-> o.sent, checkouts |-> o.checkouts, handler_ran |-> ran]

\* Mutant: the answer of the rate limiter is ignored.
Dispatch_IgnoresLimiter(m, allowed, tool, args, out) ==
    IF tool \notin available_tools(m)
    THEN Envelope(Failure("not_found"), "TOOL_NOT_FOUND", FALSE, FALSE)
    ELSE IF ~HasMethod(m, tool)
    THEN Envelope(Failure("not_implemented"), "METHOD_NOT_IMPLEMENTED", FALSE, FALSE)
    ELSE IF ~ArgumentsBind(tool, args)
    THEN Envelope(Failure("type_error"), "EXECUTION_ERROR", TRUE, FALSE)
    ELSE Envelope(Handler(tool, args, out), "absent", TRUE, TRUE)

\* MCPSQLServer.handle_tool_call after the rate limiter has answered `allowed`.
Dispatch(m, allowed, tool, args, out) ==
    IF ~allowed
    THEN Envelope(Failure("rate_limit"), "RATE_LIMIT_EXCEEDED", FALSE, FALSE)
    ELSE IF tool \notin available_tools(m)
    THEN Envelope(Failure("not_found"), "TOOL_NOT_FOUND", FALSE, FALSE)
    ELSE IF ~HasMethod(m, tool)
    THEN Envelope(Failure("not_implemented"), "METHOD_NOT_IMPLEMENTED", FALSE, FALSE)
    ELSE IF ~ArgumentsBind(tool, args)
    THEN Envelope(Failure("type_error"), "EXECUTION_ERROR", TRUE, FALSE)
    ELSE Envelope(Handler(tool, args, out), "absent", TRUE, TRUE)

\* The names and arguments callers send.
ToolNames ==
    READ_TOOLS \cup WRITE_TOOLS \cup {"no_such_tool", "_validate_table_name", "db_ops"}

SampleQueries ==
    { <<"SELECT", " ", "x">>,
      <<"SELECT", " ", "*", " ", "FROM", " ", "t", ";", " ", "DROP", " ", "TABLE", " ", "t">>,
      <<"/*", "x", "*/", "drop", " ", "x">>,
      <<"SELECT", " ", "*", " ", "into", " ", "n", " ", "FROM", " ", "t">> }

ParamValues(param) ==
    CASE param = "query" -> SampleQueries
      [] param = "where_clause" -> {"", "<None>", " ", "id = ?"}
      [] param = "table_name" -> {"t", ""}
      [] param = "data" -> {"[]", "[r1]", "[r1,r2]"}
      [] OTHER -> {"v"}

\* Arguments with every required parameter, or with one of them missing.
ArgChoices(tool) ==
    LET req == RequiredParams(tool)
        doms == {req} \cup {req \ {k} : k \in req}
    IN UNION {{a \in [d -> UNION {ParamValues(k) : k \in d}] :
                  \A k \in d : a[k] \in ParamValues(k)} : d \in doms}

InitDispatch ==
    /\ mode \in {"READ_ONLY", "FULL_ACCESS"}
    /\ db_ops_db = "None"
    /\ call = NoCall
    /\ build = NoBuild
    /\ RateIdle
    /\ ClassifyIdle
    /\ PoolIdle

\* DatabaseOperations._get_db: every handler of ReadOnlyTools but
\* execute_select starts with a db_ops method, which stores the connection
\* manager in self.db the first time.
DbOpsAfter(db, result, tool) ==
    IF result.handler_ran /\ tool \in READ_TOOLS \ {"execute_select"} THEN "manager" ELSE db

\* The callers of handle_tool_call.
DispatchClients == {"c1"}

\* Every (tool_name, arguments) pair callers send.
Calls == UNION {{[tool |-> t, args |-> a] : a \in ArgChoices(t)} : t \in ToolNames}

\* One call of handle_tool_call(tool_name, arguments, client_id), from its
\* first line to its return.
HandleToolCall ==
    \E cl \in Calls, c \in DispatchClients, out \in DbOutcomes :
        /\ is_allowed(c)
        /\ call' = [tool |-> cl.tool, args |-> cl.args, client |-> c, backend |-> out,
                    result |-> Dispatch(mode, AllowedNow(requests, c, now),
                                        cl.tool, cl.args, out)]
        /\ db_ops_db' = DbOpsAfter(db_ops_db, Dispatch(mode, AllowedNow(requests, c, now),
                                                       cl.tool, cl.args, out), cl.tool)
        /\ UNCHANGED <<now, mode, build, classVars, poolVars>>

\* Calls arrive in a burst: the clock does not advance in between (how the
\* limiter ages its history is the subject of SpecRate).
NextDispatch == HandleToolCall

SpecDispatch == InitDispatch /\ [][NextDispatch]_vars

-----------------------------------------------------------------------------
(* The validator applied to bounded query texts *)

Alphabet == {"SELECT", "SeLeCt", "drop", "x", " ", "\n", "--", "/*", "*/"}

\* Every text of at most n lexemes of the alphabet.
BaseQueries(alphabet, n) == UNION {[1..k -> alphabet] : k \in 0..n}

\* b with the block comment /* c */ put in after its first p lexemes.
WithComment(b, p, c) ==
    SubSeq(b, 1, p) \o <<"/*", c, "*/">> \o SubSeq(b, p + 1, Len(b))

\* The texts of at most n lexemes, and each of them with one block comment
\* of one lexeme put in at any place.
Queries(alphabet, n) ==
    BaseQueries(alphabet, n) \cup
    UNION {{WithComment(b, p, c) : p \in 0..Len(b), c \in alphabet \ {"*/"}} :
           b \in BaseQueries(alphabet, n)}

InitClassify ==
    /\ query \in Queries(Alphabet, MaxBaseLen)
    /\ verdict = NoVerdict
    /\ vpc = "input"
    /\ RateIdle
    /\ DispatchIdle
    /\ PoolIdle

Validate ==
    /\ vpc = "input"
    /\ verdict' = validate_read_only_query(query)
    /\ vpc' = "done"
    /\ UNCHANGED <<query, rateVars, dispVars, poolVars>>

NextClassify == Validate

SpecClassify == InitClassify /\ [][NextClassify]_vars

-----------------------------------------------------------------------------
(* C1, C2 *)

\* The handles that wait in the pool.
IdleHandles == {pool[i] : i \in DOMAIN pool}

\* The handles a caller, or the worker acquiring for it, holds.
CheckedOut == {connection[t] : t \in Callers} \ {0}

\* C1: whatever the interleaving of the callers' get_connection and
\* return_connection steps, the handles that are idle in the pool or checked
\* out number at most pool_size + max_overflow.
C1_LiveHandlesWithinCeiling ==
    Cardinality(IdleHandles \cup CheckedOut) <= pool_size + max_overflow

\* The ceiling is met with every handle checked out while another caller is
\* inside get_connection.
C1_Witness ==
    /\ Cardinality(CheckedOut) = pool_size + max_overflow
    /\ \E t \in Callers : tpc[t] \in {"get", "create"}

\* How many of the three places a handle can be in hold h.
PlacesOf(h) ==
    Cardinality({i \in DOMAIN pool : pool[i] = h})
    + Cardinality({t \in Callers : connection[t] = h})
    + (IF h \in closed THEN 1 ELSE 0)

\* C2: every handle is in exactly one place: once in the idle queue, or held
\* by exactly one caller, or discarded.
C2_OneStatePerHandle ==
    \A h \in 1..handles : PlacesOf(h) = 1

\* One handle has been discarded, its replacement is held by a caller, and
\* another caller waits on the empty queue.
C2_Witness ==
    \E t, u \in Callers :
        /\ t # u
        /\ tpc[t] = "body"
        /\ connection[t] \notin closed
        /\ tpc[u] = "get"
        /\ closed # {}
        /\ pool = <<>>

-----------------------------------------------------------------------------
(* C3 *)

RECURSIVE SqlStripComments(_)
\* What "comments stripped" means for SQL text read left to right: a "--"
\* comment runs to the end of its line (or of the text), a "/*" comment to the
\* next "*/", and a mark inside a comment opens nothing.
SqlStripComments(s) ==
    IF s = <<>> THEN <<>>
    ELSE IF Head(s) = "--"
         THEN IF IndexOf(s, "\n", 2) # 0
              THEN <<" ">> \o SqlStripComments(SubSeq(s, IndexOf(s, "\n", 2) + 1, Len(s)))
              ELSE <<>>
    ELSE IF Head(s) = "/*" /\ IndexOf(s, "*/", 2) # 0
         THEN <<" ">> \o SqlStripComments(SubSeq(s, IndexOf(s, "*/", 2) + 1, Len(s)))
         ELSE <<Head(s)>> \o SqlStripComments(Tail(s))

\* C3: a query whose text, with its comments stripped, blanks collapsed and
\* letters upper-cased, does not start with SELECT or holds a forbidden
\* keyword is denied, wherever the comments are placed and however the
\* letters are cased.
C3_DeniedWhateverTheComments ==
    vpc = "done" =>
        LET c == CollapseUpper(SqlStripComments(query)) IN
        (~StartsWithSelect(c) \/ HasForbiddenKeyword(c)) => ~verdict.valid


-----------------------------------------------------------------------------
(* C4 *)

DeniedSelect ==
    /\ call.tool = "execute_select"
    /\ mode = "READ_ONLY"
    /\ "query" \in DOMAIN call.args
    /\ ~validate_read_only_query(call.args.query).valid

\* C4: in READ_ONLY mode a call of execute_select whose query the validator
\* denies returns success = false with error code VALIDATION_FAILED and the
\* validator's reason, checks out no connection and sends nothing to the
\* backend.
C4_DeniedSelectIsValidationFailed ==
    DeniedSelect =>
        /\ call.result.success = FALSE
        /\ call.result.error_code = "VALIDATION_FAILED"
        /\ call.result.error = validate_read_only_query(call.args.query).reason
        /\ call.result.checkouts = 0
        /\ call.result.sent = <<>>

-----------------------------------------------------------------------------
(* C5 *)

WriteCallInReadOnly == call.tool \in WRITE_TOOLS /\ mode = "READ_ONLY"

NothingRan ==
    /\ ~call.result.handler_ran
    /\ call.result.checkouts = 0
    /\ call.result.sent = <<>>

\* C5 as stated: in READ_ONLY mode every call of a write or DDL tool returns
\* success = false with error code TOOL_NOT_FOUND and runs no handler and no
\* backend call.
C5_WriteToolNotFound ==
    WriteCallInReadOnly =>
        /\ call.result.success = FALSE
        /\ call.result.error_code = "TOOL_NOT_FOUND"
        /\ NothingRan

\* C5 as amended: in READ_ONLY mode every call of a write or DDL tool returns
\* success = false and runs no handler and no backend call; its error code is
\* TOOL_NOT_FOUND when the rate limiter admitted the call and
\* RATE_LIMIT_EXCEEDED when it did not.
C5_WriteToolNeverRuns ==
    WriteCallInReadOnly =>
        /\ call.result.success = FALSE
        /\ call.result.error_code =
              IF last.allowed THEN "TOOL_NOT_FOUND" ELSE "RATE_LIMIT_EXCEEDED"
        /\ NothingRan

C5_Witness ==
    /\ WriteCallInReadOnly
    /\ last.allowed
    /\ call.result.error_code = "TOOL_NOT_FOUND"
    /\ ArgumentsBind(call.tool, call.args)

-----------------------------------------------------------------------------
(* C6, C7 *)

EmptyWhere(args) == "where_clause" \in DOMAIN args /\ ~Truthy(args.where_clause)

\* C6: update_data called with an empty WHERE clause returns success = false
\* and sends nothing to the backend; no UPDATE without a WHERE clause is sent.
C6_UpdateNeedsWhere ==
    (call.tool = "update_data" /\ EmptyWhere(call.args)) =>
        /\ call.result.success = FALSE
        /\ call.result.checkouts = 0
        /\ call.result.sent = <<>>

\* C7: delete_data called with an empty WHERE clause returns success = false
\* and sends nothing to the backend; no DELETE without a WHERE clause is sent.
C7_DeleteNeedsWhere ==
    /\ (call.tool = "delete_data" /\ EmptyWhere(call.args)) =>
          /\ call.result.success = FALSE
          /\ call.result.checkouts = 0
          /\ call.result.sent = <<>>
    /\ call.tool = "delete_data" =>
          \A i \in DOMAIN call.result.sent :
              call.result.sent[i].op = "DELETE" => call.result.sent[i].where # ""

C7_Witness ==
    /\ call.tool = "delete_data"
    /\ mode = "FULL_ACCESS"
    /\ "table_name" \in DOMAIN call.args
    /\ call.args.table_name = "t"
    /\ EmptyWhere(call.args)
    /\ call.result.handler_ran
    /\ call.result.error = "no_where"

-----------------------------------------------------------------------------
(* C8, C9 *)

\* The number of entries of history h inside the interval [from, from + len).
CountIn(h, from, len) ==
    Cardinality({i \in DOMAIN h : from <= h[i] /\ h[i] < from + len})

\* The admitted calls of the caller of the latest is_allowed, before it.
AdmittedBefore ==
    IF last.allowed
    THEN SubSeq(admitted[last.client], 1, Len(admitted[last.client]) - 1)
    ELSE admitted[last.client]

\* C8: no caller has more than max_requests admitted calls inside any
\* interval of window_seconds, and a call is admitted exactly when fewer than
\* max_requests of the caller's earlier admitted calls lie within the
\* window_seconds before it.
C8_AtMostNPerWindow ==
    /\ \A c \in Clients : \A from \in 0..MaxTime :
          CountIn(admitted[c], from, window_seconds) <= max_requests
    /\ last.client # "none" =>
          (last.allowed <=>
              CountIn(AdmittedBefore, last.at - window_seconds + 1, window_seconds)
                  < max_requests)

\* The call after max_requests admitted calls in the same second is rejected.
C8_Witness ==
    /\ last.client # "none"
    /\ ~last.allowed
    /\ CountIn(admitted[last.client], last.at, 1) = max_requests

Oldest(h) == CHOOSE t \in {h[i] : i \in DOMAIN h} : \A i \in DOMAIN h : t <= h[i]

\* C9: a rejected call adds no timestamp to the caller's history, and a call
\* made more than window_seconds after the oldest recorded call of its caller
\* is admitted.
C9_RejectedCallLeavesNoTrace ==
    last.client # "none" =>
        /\ ~last.allowed =>
              /\ Len(requests[last.client]) <= Len(last.before)
              /\ \A i \in DOMAIN requests[last.client] :
                    \E j \in DOMAIN last.before :
                        requests[last.client][i] = last.before[j]
        /\ (last.before # <<>> /\ last.at - Oldest(last.before) > window_seconds)
              => last.allowed

\* A caller whose history was full is admitted again once the window has
\* passed its oldest record.
C9_Witness ==
    /\ last.client # "none"
    /\ Len(last.before) = max_requests
    /\ last.at - Oldest(last.before) > window_seconds
    /\ last.allowed

-----------------------------------------------------------------------------
(* C10 *)

\* C10: a call the rate limiter denies returns success = false with error
\* code RATE_LIMIT_EXCEEDED, runs no handler, checks out no connection, sends
\* nothing to the backend, and changes nothing but the limiter's own record
\* of the caller.
C10_DeniedCallDoesNothing ==
    [][ ~last'.allowed =>
          /\ call'.result.success = FALSE
          /\ call'.result.error_code = "RATE_LIMIT_EXCEEDED"
          /\ ~call'.result.handler_ran
          /\ call'.result.checkouts = 0
          /\ call'.result.sent = <<>>
          /\ UNCHANGED <<mode, db_ops_db, now, poolVars>>
          /\ \A k \in DOMAIN requests \ {call'.client} : requests'[k] = requests[k]
      ]_vars

C10_Witness ==
    /\ call.tool \in READ_TOOLS
    /\ ArgumentsBind(call.tool, call.args)
    /\ ~last.allowed
    /\ call.result.error_code = "RATE_LIMIT_EXCEEDED"

-----------------------------------------------------------------------------
(* C11, C12, C13 *)

\* The errors that stand for an exception raised while the call was served:
\* TypeError when the arguments do not bind, ValueError from the identifier
\* checks, and whatever DatabaseConnection.execute_query raises.
RaisedErrors == {"type_error", "bad_identifier", "exception"}

\* C11: every call returns one envelope, and a failure raised while the
\* arguments are bound or the handler executes comes back as success = false
\* with error code EXECUTION_ERROR.
C11_RaisedFailureIsExecutionError ==
    call.tool # "none" =>
        /\ call.result.success \in BOOLEAN
        /\ call.result.error \in RaisedErrors =>
              /\ call.result.success = FALSE
              /\ call.result.error_code = "EXECUTION_ERROR"

ENVELOPE_ERROR_CODES ==
    {"RATE_LIMIT_EXCEEDED", "TOOL_NOT_FOUND", "VALIDATION_FAILED", "EXECUTION_ERROR"}

\* C12: every envelope carries tool_name, timestamp and execution_time, and
\* every envelope with success = false carries one of the four error codes.
C12_EnvelopeIsComplete ==
    call.tool # "none" =>
        /\ call.result.meta
        /\ ~call.result.success => call.result.error_code \in ENVELOPE_ERROR_CODES

\* The latest call was admitted, named a registered tool, and lacked one of
\* the parameters the tool requires.
MissingRequired ==
    /\ call.tool \in available_tools(mode)
    /\ last.allowed
    /\ ~(RequiredParams(call.tool) \subseteq DOMAIN call.args)

\* C13: a call that lacks a required parameter returns success = false with
\* error code VALIDATION_FAILED, runs no handler and sends nothing to the
\* backend.
C13_MissingParameterIsValidationFailure ==
    MissingRequired =>
        /\ call.result.success = FALSE
        /\ call.result.error_code = "VALIDATION_FAILED"
        /\ ~call.result.handler_ran
        /\ call.result.sent = <<>>

-----------------------------------------------------------------------------
(* C14 *)

\* Every handle the pool may have is checked out.
AllCheckedOut == Cardinality(CheckedOut) = pool_size + max_overflow

\* C14: while pool_size + max_overflow handles are checked out and none is
\* released, one more acquire leaves its wait on the queue only by timing
\* out, and then fails with the limit error: it gets no handle and no
\* connection is created.
C14_AcquireBeyondCeilingFails ==
    [][ \A t \in Callers :
          (AllCheckedOut /\ connection[t] = 0 /\ tpc'[t] # tpc[t]) =>
              /\ tpc[t] = "get" => tpc'[t] = "create"
              /\ tpc[t] = "create" => tpc'[t] = "exhausted"
              /\ connection'[t] = 0
              /\ handles' = handles
              /\ created_connections' = created_connections
      ]_vars

\* An acquire has failed at the limit while every handle is checked out.
C14_Witness ==
    /\ AllCheckedOut
    /\ \E t \in Callers : tpc[t] = "exhausted" /\ connection[t] = 0

-----------------------------------------------------------------------------
(* C15, C16 *)

\* C15: a handle on which a query execution raised is never idle in the pool
\* again.
C15_FaultedHandleNeverIdle ==
    faulted \cap IdleHandles = {}

\* C16: a caller that has left execute_query holds no handle, and once every
\* caller has left, each handle is either once in the idle queue or closed:
\* none is still checked out, whether its operation succeeded or raised.
C16_ReleasedWhenOperationEnds ==
    /\ \A t \in Callers : tpc[t] = "idle" => connection[t] = 0
    /\ (\A t \in Callers : tpc[t] = "idle") =>
          \A h \in 1..handles :
              Cardinality({i \in DOMAIN pool : pool[i] = h})
                  = (IF h \in closed THEN 0 ELSE 1)

\* Every caller has left, after one operation raised on one handle and
\* another handle was used without fault.
C16_Witness ==
    /\ \A t \in Callers : tpc[t] = "idle"
    /\ faulted # {}
    /\ IdleHandles \ faulted # {}
    /\ faulted \ closed # {}

-----------------------------------------------------------------------------
(* C17, C18 *)

\* C17: whenever the calling context is cancelled, during the checkout or
\* during the release, the connection of that invocation goes back to the
\* pool: no handle is left checked out with nobody to release it.
C17_CancellationLosesNoHandle ==
    \A o \in orphaned : o[2] \notin {"cancelled_checkout", "cancelled_release"}

\* C18: once close() has run, every handle that was idle is closed, no
\* acquire obtains a handle and no connection is created.
C18_NothingAfterShutdown ==
    lifecycle.state # "open" =>
        /\ handles = lifecycle.handles_at_close
        /\ pool = <<>>
        /\ \A t \in Callers : tpc[t] \in {"probe", "body", "release"} =>
              connection[t] <= lifecycle.handles_at_close

-----------------------------------------------------------------------------
(* WriteTools: the statements the write and DDL tools build (write_tools.py) *)

\* In this section a text is a sequence of characters.  A statement is a
\* sequence of fragments in the order the f-string puts them; a fragment is
\* a piece of the template, the result of a sanitizer, or a piece of an
\* argument put in as the caller sent it.

\* The characters of the arguments callers send.
CallerChars == {"a", ";", " "}

\* The longest argument text.
MaxTextLen == 2

\* What \w matches among the characters used here.
WordChars == {"a", "b", "d", "o", "_"}

\* The characters the pattern [^\w\-_] of the sanitizer does not remove.
IdentifierChars == WordChars \cup {"-", "_"}

\* re.sub(r'[^\w\-_]', '', identifier) keeps the character c.
KeptBySanitizer(c) == c \in IdentifierChars

\* WriteTools._sanitize_sql_identifier; the empty result stands for the
\* ValueError it raises when nothing is left.
sanitize_sql_identifier(identifier) == SelectSeq(identifier, KeptBySanitizer)

RECURSIVE lstrip(_)
\* str.lstrip
lstrip(s) == IF s # <<>> /\ Head(s) = " " THEN lstrip(Tail(s)) ELSE s

RECURSIVE rstrip(_)
\* str.rstrip
rstrip(s) ==
    IF s # <<>> /\ s[Len(s)] = " " THEN rstrip(SubSeq(s, 1, Len(s) - 1)) ELSE s

\* str.strip
strip(s) == rstrip(lstrip(s))

\* WriteTools._validate_table_name; the empty result stands for either of
\* its ValueErrors (no text is longer than 128 characters here).
validate_table_name(table_name) ==
    IF strip(table_name) = <<>> THEN <<>> ELSE sanitize_sql_identifier(strip(table_name))

\* A piece of the f-string itself.
Fixed(s) == [from |-> "template", text |-> <<s>>]

\* The value of a clean_* variable: what a sanitizer returned.
Clean(t) == [from |-> "sanitizer", text |-> t]

\* An argument put into the f-string as the caller sent it.
AsSent(t) == [from |-> "caller", text |-> t]

\* schema = schema or "dbo", then sanitized; callers here send no schema.
clean_schema == sanitize_sql_identifier(<<"d", "b", "o">>)

\* "[{clean_schema}].[{clean_table_name}]"
QualifiedName(clean_table_name) ==
    <<Fixed("["), Clean(clean_schema), Fixed("].["), Clean(clean_table_name), Fixed("]")>>

\* What a builder leaves: the statement and the parameters given to
\* execute_query, or nothing when a ValueError was raised or the tool refused.
Built(text, params) == [sent |-> TRUE, text |-> text, params |-> params]

NotBuilt(why) == [sent |-> FALSE, text |-> <<>>, params |-> <<>>, why |-> why]

\* create_table(table_name, [{"name": name, "type": type, "default": default}]).
create_table(table_name, name, type, default, with_default) ==
    IF validate_table_name(table_name) = <<>> \/ sanitize_sql_identifier(name) = <<>>
    THEN NotBuilt("ValueError")
    ELSE Built(<<Fixed("CREATE TABLE ")>> \o QualifiedName(validate_table_name(table_name))
               \o <<Fixed(" (["), Clean(sanitize_sql_identifier(name)), Fixed("] "),
                    AsSent(type)>>
               \o (IF with_default THEN <<Fixed(" DEFAULT "), AsSent(default)>> ELSE <<>>)
               \o <<Fixed(")")>>,
               <<>>)

ALTER_OPERATIONS == {"ADD_COLUMN", "DROP_COLUMN", "ALTER_COLUMN"}

\* alter_table(table_name, operation, {"name": name, "type": type, "default": default}).
alter_table(table_name, operation, name, type, default, with_default) ==
    IF validate_table_name(table_name) = <<>> \/ sanitize_sql_identifier(name) = <<>>
    THEN NotBuilt("ValueError")
    ELSE CASE operation = "ADD_COLUMN" ->
                Built(<<Fixed("ALTER TABLE ")>> \o QualifiedName(validate_table_name(table_name))
                      \o <<Fixed(" ADD ["), Clean(sanitize_sql_identifier(name)), Fixed("] "),
                           AsSent(type)>>
                      \o (IF with_default THEN <<Fixed(" DEFAULT "), AsSent(default)>> ELSE <<>>),
                      <<>>)
           [] operation = "DROP_COLUMN" ->
                Built(<<Fixed("ALTER TABLE ")>> \o QualifiedName(validate_table_name(table_name))
                      \o <<Fixed(" DROP COLUMN ["), Clean(sanitize_sql_identifier(name)),
                           Fixed("]")>>,
                      <<>>)
           [] operation = "ALTER_COLUMN" ->
                Built(<<Fixed("ALTER TABLE ")>> \o QualifiedName(validate_table_name(table_name))
                      \o <<Fixed(" ALTER COLUMN ["), Clean(sanitize_sql_identifier(name)),
                           Fixed("] "), AsSent(type)>>,
                      <<>>)

\* drop_table(table_name).
drop_table(table_name) ==
    IF validate_table_name(table_name) = <<>>
    THEN NotBuilt("ValueError")
    ELSE Built(<<Fixed("DROP TABLE ")>> \o QualifiedName(validate_table_name(table_name)), <<>>)

\* insert_data(table_name, [{column: value}]): the statement of the one row.
BuildInsert(table_name, column, value) ==
    IF validate_table_name(table_name) = <<>> \/ sanitize_sql_identifier(column) = <<>>
    THEN NotBuilt("ValueError")
    ELSE Built(<<Fixed("INSERT INTO ")>> \o QualifiedName(validate_table_name(table_name))
               \o <<Fixed(" (["), Clean(sanitize_sql_identifier(column)),
                    Fixed("]) VALUES (?)")>>,
               <<value>>)

\* update_data(table_name, {column: value}, where_clause).
BuildUpdate(table_name, column, value, where_clause) ==
    IF validate_table_name(table_name) = <<>> \/ sanitize_sql_identifier(column) = <<>>
    THEN NotBuilt("ValueError")
    ELSE Built(<<Fixed("UPDATE ")>> \o QualifiedName(validate_table_name(table_name))
               \o <<Fixed(" SET ["), Clean(sanitize_sql_identifier(column)), Fixed("] = ?")>>
               \o (IF where_clause # <<>> THEN <<Fixed(" WHERE "), AsSent(where_clause)>>
                   ELSE <<>>),
               <<value>>)

\* delete_data(table_name, where_clause).
BuildDelete(table_name, where_clause) ==
    IF validate_table_name(table_name) = <<>>
    THEN NotBuilt("ValueError")
    ELSE IF where_clause # <<>>
         THEN Built(<<Fixed("DELETE FROM ")>> \o QualifiedName(validate_table_name(table_name))
                    \o <<Fixed(" WHERE "), AsSent(where_clause)>>,
                    <<>>)
         ELSE NotBuilt("refused")

\* create_index(index_name, table_name, [column], unique).
create_index(index_name, table_name, column, unique) ==
    IF \/ sanitize_sql_identifier(index_name) = <<>>
       \/ validate_table_name(table_name) = <<>>
       \/ sanitize_sql_identifier(column) = <<>>
    THEN NotBuilt("ValueError")
    ELSE Built(<<Fixed(IF unique THEN "CREATE UNIQUE INDEX [" ELSE "CREATE INDEX ["),
                 Clean(sanitize_sql_identifier(index_name)), Fixed("] ON ")>>
               \o QualifiedName(validate_table_name(table_name))
               \o <<Fixed(" (["), Clean(sanitize_sql_identifier(column)), Fixed("])")>>,
               <<>>)

\* drop_index(index_name, table_name).
drop_index(index_name, table_name) ==
    IF sanitize_sql_identifier(index_name) = <<>> \/ validate_table_name(table_name) = <<>>
    THEN NotBuilt("ValueError")
    ELSE Built(<<Fixed("DROP INDEX ["), Clean(sanitize_sql_identifier(index_name)),
                 Fixed("] ON ")>>
               \o QualifiedName(validate_table_name(table_name)),
               <<>>)

\* execute_procedure(procedure_name, [param]) and execute_procedure(procedure_name).
execute_procedure(procedure_name, param, with_param) ==
    IF sanitize_sql_identifier(procedure_name) = <<>>
    THEN NotBuilt("ValueError")
    ELSE Built(<<Fixed("EXEC ["), Clean(clean_schema), Fixed("].["),
                 Clean(sanitize_sql_identifier(procedure_name)), Fixed("]")>>
               \o (IF with_param THEN <<Fixed(" ?")>> ELSE <<>>),
               IF with_param THEN <<param>> ELSE <<>>)

\* backup_table(table_name, backup_name); without a backup name the tool
\* makes one of the clean table name and the time.
backup_table(table_name, backup_name) ==
    IF \/ validate_table_name(table_name) = <<>>
       \/ backup_name # <<>> /\ validate_table_name(backup_name) = <<>>
    THEN NotBuilt("ValueError")
    ELSE Built(<<Fixed("SELECT * INTO ["), Clean(clean_schema), Fixed("].[")>>
               \o (IF backup_name # <<>>
                   THEN <<Clean(validate_table_name(backup_name))>>
                   ELSE <<Clean(validate_table_name(table_name)), Fixed("_backup_<time>")>>)
               \o <<Fixed("] FROM ")>> \o QualifiedName(validate_table_name(table_name)),
               <<>>)

\* The tools that build a statement from their arguments.  execute_query
\* builds none: its argument is the statement.
BUILDER_TOOLS ==
    {"create_table", "alter_table", "drop_table", "insert_data", "update_data",
     "delete_data", "create_index", "drop_index", "execute_procedure", "backup_table"}

\* The statement the tool of the call builds.  The call has one table,
\* index, procedure or backup name and one column name; other is the type
\* and default of the column, the value of the row or of the parameter, or
\* the WHERE clause; flag is with-default, unique or with-parameter.
BuildStatement(c) ==
    CASE c.tool = "create_table" -> create_table(c.table, c.name, c.other, c.other, c.flag)
      [] c.tool = "alter_table" ->
            alter_table(c.table, c.operation, c.name, c.other, c.other, c.flag)
      [] c.tool = "drop_table" -> drop_table(c.table)
      [] c.tool = "insert_data" -> BuildInsert(c.table, c.name, c.other)
      [] c.tool = "update_data" -> BuildUpdate(c.table, c.name, c.other, c.other)
      [] c.tool = "delete_data" -> BuildDelete(c.table, c.other)
      [] c.tool = "create_index" -> create_index(c.name, c.table, c.name, c.flag)
      [] c.tool = "drop_index" -> drop_index(c.name, c.table)
      [] c.tool = "execute_procedure" -> execute_procedure(c.name, c.other, c.flag)
      [] c.tool = "backup_table" -> backup_table(c.table, c.name)

\* Every text of at most n characters of the alphabet.
Texts(alphabet, n) == UNION {[1..k -> alphabet] : k \in 0..n}

\* The calls of the builder tools.
BuildCalls(alphabet, n) ==
    {[tool |-> t, operation |-> op, table |-> tb, name |-> nm, other |-> ot, flag |-> fl] :
        t \in BUILDER_TOOLS, op \in ALTER_OPERATIONS, tb \in {<<"a">>, <<" ">>, <<";", "a">>},
        nm \in Texts(alphabet, n), ot \in Texts(alphabet, n), fl \in BOOLEAN}

InitBuild ==
    /\ build \in {[stage |-> "input", args |-> c] : c \in BuildCalls(CallerChars, MaxTextLen)}
    /\ mode = "FULL_ACCESS"
    /\ db_ops_db = "None"
    /\ call = NoCall
    /\ RateIdle
    /\ ClassifyIdle
    /\ PoolIdle

\* The tool runs up to its call of execute_query.
Build ==
    /\ build.stage = "input"
    /\ build' = [stage |-> "built", args |-> build.args, result |-> BuildStatement(build.args)]
    /\ UNCHANGED <<mode, db_ops_db, call, classVars, rateVars, poolVars>>

NextBuild == Build

SpecBuild == InitBuild /\ [][NextBuild]_vars

-----------------------------------------------------------------------------
(* C19 *)

\* The fragments of the statement the call built.
Fragments == IF build.stage = "built" THEN build.result.text ELSE <<>>

\* C19: in every statement a write or DDL tool generates, the only text of
\* the caller is identifiers stripped to the identifier alphabet; no value
\* the caller supplied is put into the statement text.
C19_OnlyCleanIdentifiersInText ==
    \A i \in DOMAIN Fragments :
        /\ Fragments[i].from # "caller"
        /\ Fragments[i].from = "sanitizer" =>
              \A j \in DOMAIN Fragments[i].text : Fragments[i].text[j] \in IdentifierChars

-----------------------------------------------------------------------------
(* The validator applied to queries made of whole phrases *)

\* The phrases the queries are made of; each is a sequence of lexemes.
Phrases ==
    { <<"SELECT", " ">>, <<"x", " ">>, <<"UNION", " ">>, <<"ALL", " ">>,
      <<"FROM", " ", "INFORMATION_SCHEMA">>, <<";">>, <<"@@">>, <<"WAITFOR">> }

\* The most phrases in a query.
MaxPhrases == 5

RECURSIVE Flatten(_)
\* The lexemes of a sequence of phrases.
Flatten(ps) == IF ps = <<>> THEN <<>> ELSE Head(ps) \o Flatten(Tail(ps))

\* Every query of at most n phrases.
PhraseQueries(phrases, n) == {Flatten(ps) : ps \in UNION {[1..k -> phrases] : k \in 0..n}}

InitPatterns ==
    /\ query \in PhraseQueries(Phrases, MaxPhrases)
    /\ verdict = NoVerdict
    /\ vpc = "input"
    /\ RateIdle
    /\ DispatchIdle
    /\ PoolIdle

SpecPatterns == InitPatterns /\ [][NextClassify]_vars

-----------------------------------------------------------------------------
(* C20 *)

\* A statement separator followed by another SELECT.
SeparatorThenSelect(c) ==
    \E i \in 1..Len(c) :
        /\ c[i] = ";"
        /\ \E j \in (i + 1)..Len(c) :
              /\ c[j] = "SELECT"
              /\ \A k \in (i + 1)..(j - 1) : c[k] = " "

\* A UNION, with or without ALL, whose SELECT reads a system metadata view.
MetadataViewWithUnion(c) ==
    \E i \in 1..Len(c) :
        /\ c[i] = "UNION"
        /\ \E j \in (i + 1)..Len(c) :
              /\ c[j] = "SELECT"
              /\ \A k \in (i + 1)..(j - 1) : c[k] \in {" ", "ALL"}
              /\ \E m \in (j + 1)..Len(c) : c[m] = "INFORMATION_SCHEMA"

\* A system or environment pseudo-variable.
UsesPseudoVariable(c) == \E i \in 1..Len(c) : c[i] = "@@"

\* A time-delay construct.
UsesTimeDelay(c) == \E i \in 1..Len(c) : c[i] = "WAITFOR"

\* C20: the validator denies every query whose cleaned text has a statement
\* separator followed by another SELECT, a system metadata view combined with
\* UNION (with or without ALL), an @@ pseudo-variable, or WAITFOR.
C20_DangerousPatternIsDenied ==
    (/\ vpc = "done"
     /\ \/ SeparatorThenSelect(QueryClean(query))
        \/ MetadataViewWithUnion(QueryClean(query))
        \/ UsesPseudoVariable(QueryClean(query))
        \/ UsesTimeDelay(QueryClean(query)))
    => ~verdict.valid

-----------------------------------------------------------------------------
(* C21 *)

\* The statements the write tool of the latest call was asked to apply: one
\* per supplied row for insert_data, one for every other write tool.
Requested ==
    IF call.tool = "insert_data" THEN 1..RowCount(call.args.data) ELSE {1}

\* The latest call ran the handler of a write tool.
WriteToolRan ==
    /\ call.tool \in WRITE_TOOLS
    /\ call.result.handler_ran

\* C21: a write operation that reports success = true has applied the whole
\* requested mutation (for insert_data, every supplied row); a failure of any
\* part is never reported as success.
C21_SuccessMeansAllApplied ==
    (WriteToolRan /\ call.result.success) =>
        \A i \in Requested : CallOutcome(call.backend, i) = "ok"

-----------------------------------------------------------------------------
(* C22 *)

\* C22: between admission and the returned envelope an invocation whose
\* handler ran checks out at most one connection and makes at most one
\* backend call, and exactly one of each when it reports success.
C22_OneUnitOfWork ==
    (call.tool # "none" /\ call.result.handler_ran) =>
        /\ call.result.checkouts <= 1
        /\ Len(call.result.sent) <= 1
        /\ call.result.success =>
              (call.result.checkouts = 1 /\ Len(call.result.sent) = 1)

-----------------------------------------------------------------------------
(* C23 *)

\* C23: by the time a handle is back in the idle set the work done on it has
\* been committed or rolled back, so that no caller checks out a handle with
\* an open transaction.
C23_IdleHandleHasNoOpenTransaction == IdleHandles \cap uncommitted = {}

-----------------------------------------------------------------------------
(* C24 *)

RECURSIVE Alone(_, _)
\* self.requests of a limiter that has seen nothing but calls of caller c,
\* made at the given times.
Alone(c, times) ==
    IF times = <<>> THEN <<>>
    ELSE RequestsAfter(Alone(c, SubSeq(times, 1, Len(times) - 1)), c, times[Len(times)])

\* Another caller has a full history at the time of the latest call.
OtherCallerFull ==
    \E o \in Clients \ {last.client} :
        CountIn(admitted[o], last.at - window_seconds + 1, window_seconds) = max_requests

\* C24: the answer to a caller is the answer a limiter would give that had
\* seen that caller's calls only, at the same times, whatever other callers
\* did in between; a caller not seen before is admitted.
C24_AnswerDependsOnOwnCallsOnly ==
    last.client # "none" =>
        /\ last.allowed = AllowedNow(Alone(last.client, AdmittedBefore), last.client, last.at)
        /\ ~last.seen => last.allowed

\* A caller is admitted, for the first time and again later, while another
\* caller's history is full.
C24_Witness ==
    /\ last.client # "none"
    /\ last.allowed
    /\ last.seen
    /\ OtherCallerFull

-----------------------------------------------------------------------------
(* C25 *)

\* C25: _created_connections always equals the number of handles that are
\* idle or checked out; a handle discarded after a failed probe is taken
\* off the counter, so that the capacity it held can be created again.
C25_CounterCountsLiveHandles ==
    created_connections = Cardinality(IdleHandles \cup CheckedOut)

-----------------------------------------------------------------------------
(* The pool with two callers and a queue that serves its waiters *)

HandoffCallers == {"t1", "t2"}

NextHandoff ==
    \/ \E t \in HandoffCallers :
          \/ Enter(t)
          \/ PoolGet(t)
          \/ PoolEmpty(t)
          \/ Probe(t)
          \/ CreateNew(t)
          \/ Raise(t)
          \/ Execute(t)
          \/ ReturnConnection(t)
    \/ \E h \in 1..MaxHandles : Drop(h)

\* Queue.put_nowait notifies a thread that waits in Queue.get, and the thread
\* that wakes takes the item: a get that stays possible is made.
SpecHandoff ==
    /\ InitPool
    /\ [][NextHandoff]_vars
    /\ WF_vars(\E t \in HandoffCallers : PoolGet(t))

-----------------------------------------------------------------------------
(* C26 *)

\* The callers that wait on the queue.
Waiting == {t \in HandoffCallers : tpc[t] = "get"}

\* C26: a caller that waits for an idle handle does not give up while the
\* queue holds one, a release is possible whoever waits, and the handle at
\* the head of the queue is taken by a waiting caller as long as one waits.
C26_ReleasedHandleReachesWaiter ==
    /\ [][\A t \in HandoffCallers :
            (tpc[t] = "get" /\ pool # <<>> /\ tpc'[t] # "get")
                => (tpc'[t] = "probe" /\ connection'[t] = Head(pool))]_vars
    /\ [](\A t \in HandoffCallers : tpc[t] = "release" => ENABLED ReturnConnection(t))
    /\ \A h \in 1..MaxHandles :
          (Waiting # {} /\ pool # <<>> /\ Head(pool) = h)
              ~> (\E t \in HandoffCallers : tpc[t] = "probe" /\ connection[t] = h)

\* A caller waits on the empty queue while another is about to release.
C26_Witness ==
    /\ pool = <<>>
    /\ \E t, u \in HandoffCallers :
          /\ tpc[t] = "get"
          /\ tpc[u] = "release"
          /\ connection[u] \in Healthy

-----------------------------------------------------------------------------
(* ReadOnlyTools: the statements the read tools build (read_tools.py, *)
(* operations.py) *)

\* Query text that validate_read_only_query allowed.
AllowedQuery(q) == [from |-> "allowed_query", text |-> q]

RECURSIVE DropTrailingSpace(_)
DropTrailingSpace(s) ==
    IF s # <<>> /\ IsSpace(s[Len(s)]) THEN DropTrailingSpace(SubSeq(s, 1, Len(s) - 1)) ELSE s

\* query.strip() on a query given as lexemes.
StripQuery(q) == DropTrailingSpace(DropLeadingSpace(q))

\* "TOP" in query.upper() or "FETCH" in query.upper()
HasTopOrFetch(q) == \E i \in 1..Len(q) : UpperTok(q[i]) \in {"TOP", "FETCH"}

\* schema = schema or 'dbo'
SchemaOrDbo(schema) == IF schema # <<>> THEN schema ELSE <<"d", "b", "o">>

\* DatabaseOperations.list_tables(schema)
BuildListTables(schema) ==
    Built(<<Fixed("SELECT ... FROM INFORMATION_SCHEMA.TABLES t ... WHERE t.TABLE_TYPE IN (...)")>>
          \o (IF schema # <<>> THEN <<Fixed(" AND t.TABLE_SCHEMA = ?")>> ELSE <<>>)
          \o <<Fixed(" ORDER BY t.TABLE_SCHEMA, t.TABLE_NAME")>>,
          IF schema # <<>> THEN <<schema>> ELSE <<>>)

\* DatabaseOperations.describe_table, list_indexes and check_constraints:
\* a constant query with the parameters (table_name, schema).
BuildByName(tool, table_name, schema) ==
    Built(<<Fixed(tool)>>, <<table_name, SchemaOrDbo(schema)>>)

\* ReadOnlyTools.get_table_data and DatabaseOperations.get_table_data; the
\* limit bound is min(limit, max_result_rows).
BuildGetTableData(table_name, schema, limit, offset) ==
    Built(<<Fixed("SELECT * FROM ["), AsSent(SchemaOrDbo(schema)), Fixed("].["),
            AsSent(table_name),
            Fixed("] ORDER BY (SELECT NULL) OFFSET ? ROWS FETCH NEXT ? ROWS ONLY")>>,
          <<offset, limit>>)

\* ReadOnlyTools.execute_select(query, limit) up to db.execute_query(query).
BuildSelect(q, limit) ==
    IF ~validate_read_only_query(q).valid THEN NotBuilt("denied")
    ELSE IF ~HasTopOrFetch(q) /\ StripQuery(q) # <<>>
            /\ UpperTok(Head(StripQuery(q))) = "SELECT"
         THEN Built(<<Fixed("SELECT TOP "),
                      IF limit # <<>> THEN AsSent(limit) ELSE Fixed("<max_result_rows>"),
                      Fixed(" "), AllowedQuery(Tail(StripQuery(q)))>>,
                    <<>>)
         ELSE Built(<<AllowedQuery(q)>>, <<>>)

\* The read tools that take a name, a number or a query from the caller.
READ_BUILDER_TOOLS ==
    {"list_tables", "describe_table", "list_columns", "list_indexes",
     "get_table_data", "check_constraints", "execute_select"}

\* The statement the read tool of the call builds.
BuildReadStatement(c) ==
    CASE c.tool = "list_tables" -> BuildListTables(c.schema)
      [] c.tool = "describe_table" -> BuildByName("describe_table", c.table, c.schema)
      [] c.tool = "list_columns" -> BuildByName("describe_table", c.table, c.schema)
      [] c.tool = "list_indexes" -> BuildByName("list_indexes", c.table, c.schema)
      [] c.tool = "check_constraints" -> BuildByName("check_constraints", c.table, c.schema)
      [] c.tool = "get_table_data" -> BuildGetTableData(c.table, c.schema, c.limit, c.limit)
      [] c.tool = "execute_select" -> BuildSelect(c.query, c.limit)

\* The queries sent to execute_select.
SelectQueries ==
    { <<"SELECT", " ", "x">>,
      <<"SELECT", " ", "TOP", " ", "x">>,
      <<"/*", "x", "*/", "SELECT", " ", "x">>,
      <<"drop", " ", "x">> }

\* The calls of the read tools; a limit is any text of at most one character.
ReadCalls(alphabet, n) ==
    {[tool |-> t, table |-> tb, schema |-> sc, limit |-> lm, query |-> q] :
        t \in READ_BUILDER_TOOLS, tb \in Texts(alphabet, n), sc \in Texts(alphabet, n),
        lm \in Texts(alphabet, 1), q \in SelectQueries}

InitReadBuild ==
    /\ build \in {[stage |-> "input", args |-> c] : c \in ReadCalls(CallerChars, MaxTextLen)}
    /\ mode = "READ_ONLY"
    /\ db_ops_db = "None"
    /\ call = NoCall
    /\ RateIdle
    /\ ClassifyIdle
    /\ PoolIdle

\* The tool runs up to its call of DatabaseConnection.execute_query.
ReadBuild ==
    /\ build.stage = "input"
    /\ build' = [stage |-> "built", args |-> build.args,
                 result |-> BuildReadStatement(build.args)]
    /\ UNCHANGED <<mode, db_ops_db, call, classVars, rateVars, poolVars>>

NextReadBuild == ReadBuild

SpecReadBuild == InitReadBuild /\ [][NextReadBuild]_vars

-----------------------------------------------------------------------------
(* C27 *)

\* C27: in READ_ONLY mode the only text of the caller in a statement sent
\* to the backend is query text the validator allowed; names, limits and
\* offsets are bound parameters and are not put into the statement text.
C27_OnlyAllowedQueryTextInStatement ==
    \A i \in DOMAIN Fragments : Fragments[i].from # "caller"

-----------------------------------------------------------------------------
(* C28 *)

\* The words of a statement that creates or modifies a table.
TABLE_WRITING_WORDS ==
    {"INTO", "INSERT", "UPDATE", "DELETE", "DROP", "CREATE", "ALTER", "TRUNCATE"}

\* The statement text holds a word that creates or modifies a table.
WritesTable(text) == \E i \in 1..Len(text) : UpperTok(text[i]) \in TABLE_WRITING_WORDS

\* C28: in READ_ONLY mode no call of execute_select sends the backend a
\* statement that creates or modifies a table; SELECT ... INTO is denied.
C28_SelectNeverWritesTable ==
    (call.tool = "execute_select" /\ mode = "READ_ONLY") =>
        \A i \in DOMAIN call.result.sent : ~WritesTable(call.result.sent[i].text)

-----------------------------------------------------------------------------
(* C29 *)

\* The names registered for the mode of the server.
Registered == IF mode = "FULL_ACCESS" THEN READ_TOOLS \cup WRITE_TOOLS ELSE READ_TOOLS

\* C29: a handler runs only for a name registered for the active mode, no
\* call ends in METHOD_NOT_IMPLEMENTED, and a name outside the registry, an
\* attribute of the tools object included, runs nothing and is not found.
C29_OnlyRegisteredNamesRun ==
    call.tool # "none" =>
        /\ call.result.handler_ran => call.tool \in Registered
        /\ call.result.error_code # "METHOD_NOT_IMPLEMENTED"
        /\ (call.tool \notin Registered /\ last.allowed) =>
              /\ call.result.error_code = "TOOL_NOT_FOUND"
              /\ call.result.sent = <<>>

\* An attribute of the FullAccessTools object was asked for by name.
C29_Witness ==
    /\ mode = "FULL_ACCESS"
    /\ call.tool \in {"_validate_table_name", "db_ops"}
    /\ last.allowed
    /\ HasMethod(mode, call.tool)
    /\ call.result.error_code = "TOOL_NOT_FOUND"

-----------------------------------------------------------------------------
(* ReadOnlyTools: the rows execute_select and get_table_data return *)
(* (read_tools.py) *)

max_result_rows == 2    \* ReadOnlyTools.max_result_rows, scaled down from 1000

\* The largest limit a caller sends and the most rows a query yields.
MaxRows == 4

\* min(a, b)
Min(a, b) == IF a < b THEN a ELSE b

\* The dictionary of a read that worked.
Rows(n, limit) == [success |-> TRUE, row_count |-> n, limit_applied |-> limit]

\* The dictionary of the except branch: "data": [].
NoRows == [success |-> FALSE, row_count |-> 0, limit_applied |-> 0]

\* limit = limit or self.max_result_rows; 0 stands for None and for 0.
SelectLimit(limit) == IF limit = 0 THEN max_result_rows ELSE limit

\* ReadOnlyTools.execute_select on an allowed query that yields `yields`
\* rows: TOP {limit} is put in unless the query has its own TOP or FETCH,
\* and the result is cut to results[:limit].
SelectRows(limit, yields, own_top) ==
    LET results == IF own_top THEN yields ELSE Min(yields, SelectLimit(limit))
    IN Rows(Min(results, SelectLimit(limit)), SelectLimit(limit))

\* ReadOnlyTools.get_table_data on a table with `yields` rows after the
\* offset: FETCH NEXT min(limit, max_result_rows) ROWS ONLY, which the
\* backend refuses for a number below 1.
TableRows(limit, yields) ==
    IF Min(limit, max_result_rows) < 1 THEN NoRows
    ELSE Rows(Min(yields, Min(limit, max_result_rows)), Min(limit, max_result_rows))

\* The calls: a limit, 0 for none given to execute_select, the rows there
\* are, and whether the query has its own TOP.
RowCalls ==
    {[tool |-> t, limit |-> l, yields |-> y, own_top |-> o] :
        t \in {"execute_select", "get_table_data"}, l \in 0..MaxRows, y \in 0..MaxRows,
        o \in BOOLEAN}

InitRows ==
    /\ build \in {[stage |-> "input", args |-> c] : c \in RowCalls}
    /\ mode = "READ_ONLY"
    /\ db_ops_db = "None"
    /\ call = NoCall
    /\ RateIdle
    /\ ClassifyIdle
    /\ PoolIdle

\* The tool runs and returns its dictionary.
ReturnRows ==
    /\ build.stage = "input"
    /\ build' = [stage |-> "returned", args |-> build.args,
                 result |-> IF build.args.tool = "execute_select"
                            THEN SelectRows(build.args.limit, build.args.yields,
                                            build.args.own_top)
                            ELSE TableRows(build.args.limit, build.args.yields)]
    /\ UNCHANGED <<mode, db_ops_db, call, classVars, rateVars, poolVars>>

NextRows == ReturnRows

SpecRows == InitRows /\ [][NextRows]_vars

-----------------------------------------------------------------------------
(* C30 *)

\* C30: the rows execute_select and get_table_data return are never more
\* than max_result_rows, whatever the limit of the caller, and never more
\* than the limit reported as applied.
C30_RowsWithinMaximum ==
    build.stage = "returned" =>
        /\ build.result.row_count <= max_result_rows
        /\ build.result.success => build.result.row_count <= build.result.limit_applied

=============================================================================
